---- MODULE Spec2Model ----
(***************************************************************************)
(* Lifecycle and per-frame behaviour of the five canvas scenes of the      *)
(* site: VectorField (flow field), DoublePendulum, SpacetimeCursor (cursor *)
(* grid), SpacetimeManifold and StarField; and the state of two page       *)
(* components, RandomPhoto and CommandPalette.                             *)
(*                                                                         *)
(* One component is followed per behaviour (kind).  The host         *)
(* (browser + React) owns the animation-frame queue, the event listeners,  *)
(* the timers, the DOM and the GPU objects; the component owns its refs    *)
(* and the locals captured by the closures of its mount effect.            *)
(*                                                                         *)
(* Every handler of the source is an operator from a state record to a     *)
(* state record, so that a handler calling another one (the mount effect   *)
(* calls resize() and animate()) is the composition of the operators.      *)
(* Coordinates are pixels on the integer grid, lives are frame counts,     *)
(* the cursor grid's intensity is kept in thousandths.                     *)
(***************************************************************************)
EXTENDS Integers, Sequences, FiniteSets, TLC

VARIABLES
    kind,                  \* which scene component this behaviour follows
    mediaReduced,          \* host: (prefers-reduced-motion: reduce) matches
    hostCtx,               \* host: getContext('2d') / WebGL is available
    offsetWidth,           \* host: canvas.offsetWidth / window.innerWidth
    offsetHeight,          \* host: canvas.offsetHeight / window.innerHeight
    entityCount,           \* prop: particleCount / starCount / lineCount /
                           \* photos.length
    curveCount,            \* prop: SpacetimeManifold curveCount
    phase,                 \* "idle" | "mounted" | "disposed" (effect lifecycle)
    gen,                   \* number of times the mount effect has run
    disposals,             \* calls of the cleanup the last mount returned
    hasCleanup,            \* the last run of the effect returned a cleanup
    prefersReducedMotion,  \* const captured by the closures of the last mount
    animationRef,          \* animationRef.current
    rafQueue,              \* host: handles of pending requestAnimationFrame
    nextHandle,            \* host: next handle requestAnimationFrame returns
    nextTimer,             \* host: next id setInterval / setTimeout returns
    listeners,             \* host: event listeners registered by the scene
    mouseRef,              \* mouseRef.current
    timeRef,               \* timeRef.current, in units of one frame's step
    time,                  \* StarField's local `time`, in frame steps
    steps,                 \* DoublePendulum: integrator steps of this mount
    width,                 \* surface bounds (closure locals / canvas.width)
    height,
    particlesRef,          \* VectorField: particlesRef.current
    intensityRef,          \* SpacetimeCursor: intensityRef.current * 1000
    rendered,              \* frames drawn to the surface since the last mount
    live,                  \* host: GPU objects created and not yet disposed
    domChildren,           \* host: drawing surfaces attached to the container
    intervals,             \* host: pending setInterval timers
    revealTimer,           \* DoublePendulum: const revealTimer of the reveal effect
    timeouts,              \* host: pending setTimeout timers
    showFact,              \* DoublePendulum: showFact state
    factIndexRef,          \* DoublePendulum: factIndexRef.current
    currentFact,           \* DoublePendulum: index of the fact shown, 0 = ''
    error,                 \* an exception escaped a handler
    trail,                 \* DoublePendulum: the trail of the second mass
    angles,                \* DoublePendulum: the draws of the initial angles
    seedRef,              \* StarField / SpacetimeManifold: seedRef.current
    opacities,            \* StarField: the Float32Array opacities, in 1/10000
    mountOpacities,       \* StarField: opacities as the mount loop assigned them
    positions,            \* SpacetimeManifold: particle positions <<x, y, z>>, in 1/PosScale
    velocities,           \* SpacetimeManifold: drift velocities <<x, y, z>>, in 1/PosScale
    theme,                \* host: the data-theme attribute of the document
    pageColor,            \* SpacetimeCursor: const pageColor of the mount effect
    frameColor,           \* the colours the last frame was drawn with
    twin,                 \* a second instance of the component (its state record), if any
    facts,                \* DoublePendulum: the facts prop (labels, by position)
    reveals,              \* DoublePendulum: reveal events since the component was created
    lineCount,            \* SpacetimeCursor: lineCount as the last mount captured it
    segments,             \* particle segments, grid lines or points the last frame rendered
    samples,              \* pointer samples the host delivered since the last frame
    observed,             \* the samples that were pending when the last frame started
    now,                  \* host: the time, in units of 1250 ms
    revealInterval,       \* DoublePendulum: the revealInterval prop, in units of 1250 ms
    dueAt,                \* host: <<timer id, time it is due>> of every pending timer
    currentIndex,         \* RandomPhoto: currentIndex state
    loaded,               \* RandomPhoto: loaded state
    newIndex,             \* RandomPhoto: newIndex of handleClick (NoIndex: not assigned)
    clickPc,              \* RandomPhoto: position in handleClick ("idle", "draw")
    clicks,               \* history: clicks delivered to handleClick
    isOpen,               \* CommandPalette: isOpen state
    query,                \* CommandPalette: query state, a sequence of characters
    selectedIndex,        \* CommandPalette: selectedIndex state
    resetPending          \* CommandPalette: the [query] effect is scheduled

hostVars == <<kind, mediaReduced, hostCtx, offsetWidth, offsetHeight,
              entityCount, curveCount, phase, gen, disposals>>

sceneVars == <<hasCleanup, prefersReducedMotion, animationRef, rafQueue,
               nextHandle, nextTimer, listeners, mouseRef, timeRef, time, steps, width,
               height, particlesRef, intensityRef, rendered, live,
               domChildren, intervals, revealTimer, timeouts, showFact,
               factIndexRef, currentFact, error,
               trail,
               angles,
               seedRef,
               opacities,
               mountOpacities,
               positions,
               velocities,
               theme,
               pageColor,
               frameColor,
               twin,
               facts,
               reveals,
               lineCount,
               segments,
               samples,
               observed,
               now,
               revealInterval,
               dueAt,
               currentIndex,
               loaded,
               newIndex,
               clickPc,
               clicks,
               isOpen,
               query,
               selectedIndex,
               resetPending>>

vars == <<hostVars, sceneVars>>

-----------------------------------------------------------------------------
(* Bounds of the model *)

MaxFrames == 2        \* frames drawn per mount
MaxMounts == 2        \* runs of the mount effect per component
MaxReveals == 2       \* reveal events per component
FlowFrames == 5       \* frames drawn per mount when the flow field is followed
TrailFrames == 202    \* frames drawn when the pendulum is followed
ManifoldFrames == 4   \* frames drawn per mount when the manifold is followed
MaxFacts == 3         \* length of the longest facts list followed
RevealEvents == 5     \* reveal events when the reveal timer is followed
MaxSamples == 2       \* pointer events between two frames
MaxClicks == 2        \* clicks on the photo
MaxTime == 6          \* time followed when the timers are timed, in units of 1250 ms
CursorFrames == 502   \* frames drawn when the cursor grid is followed

(* Program constants *)

MaxDist == 200        \* VectorField maxDist
SpeedProp == 1        \* VectorField speed prop (default)
IntensityOne == 1000  \* Math.min(1, ...) in thousandths
IntensityStep == 2    \* + 0.002 per frame, in thousandths
FactsLen == 8         \* defaultFacts.length
HideDelay == 2        \* setTimeout(..., 2500), in units of 1250 ms
DefaultRevealInterval == 4   \* revealInterval = 5000, in units of 1250 ms
MaxTrail == 200       \* DoublePendulum maxTrail
RandDen == 8          \* seededRandom() is kept in eighths
OpacityOne == 10000   \* opacity 1.0, in 1/10000
PosScale == 400       \* SpacetimeManifold: model units per scene unit
WrapX == 100          \* SpacetimeManifold: wrap at x = +-100
WrapY == 75           \* SpacetimeManifold: wrap at y = +-75
MouseReach == 50      \* SpacetimeManifold: maxDist = 2500 = 50^2
CursorPx == 100       \* SpacetimeCursor: pixels per unit of window size
MaxInfluence == 250   \* SpacetimeCursor maxInfluence
MinInfluence == 10    \* SpacetimeCursor: dist > 10
OffScreen == -1000    \* SpacetimeCursor: pointer parked off screen

Kinds == {"flow", "pendulum", "cursor", "manifold", "star"}

\* sizes the host gives the canvas / container / window
Widths == {1, 2}

Heights == {1}

\* maxLife = 100 + Math.random() * 200, scaled down to a few frames
Lifes == {2, 3}

\* particleCount props followed; the particles of a pool are updated
\* independently of each other, one loop iteration each
ParticleCounts == {0, 1}

\* cos/sin of the flow angle, quantised to quarter turns
Dirs == {<<1, 0>>, <<0, 1>>, <<-1, 0>>, <<0, -1>>}

\* p.speed = 0.5 + Math.random() * 1.5, in whole pixels per frame
ParticleSpeeds == {1}

\* pointer positions the host reports (clientX - rect.left, clientY - rect.top)
MousePoints == {<<0, 0>>, <<1, 1>>}

NoMouse == [x |-> 0, y |-> 0, active |-> FALSE]

Themes == {"dark", "light"}

\* Date.now() % 10000 at the first render
Seeds == {0, 1, 2}

-----------------------------------------------------------------------------
(* The state record the handlers work on *)

St ==
    [hasCleanup |-> hasCleanup, prefersReducedMotion |-> prefersReducedMotion,
     animationRef |-> animationRef, rafQueue |-> rafQueue,
     nextHandle |-> nextHandle, nextTimer |-> nextTimer,
     listeners |-> listeners,
     mouseRef |-> mouseRef, timeRef |-> timeRef, time |-> time,
     steps |-> steps, width |-> width, height |-> height,
     particlesRef |-> particlesRef, intensityRef |-> intensityRef,
     rendered |-> rendered, live |-> live, domChildren |-> domChildren,
     intervals |-> intervals, revealTimer |-> revealTimer,
     timeouts |-> timeouts, showFact |-> showFact,
     factIndexRef |-> factIndexRef, currentFact |-> currentFact,
     error |-> error,
     trail |-> trail,
     angles |-> angles,
     seedRef |-> seedRef,
     opacities |-> opacities,
     mountOpacities |-> mountOpacities,
     positions |-> positions,
     velocities |-> velocities,
     theme |-> theme,
     pageColor |-> pageColor,
     frameColor |-> frameColor,
     twin |-> twin,
     facts |-> facts,
     reveals |-> reveals,
     lineCount |-> lineCount,
     segments |-> segments,
     samples |-> samples,
     observed |-> observed,
     now |-> now,
     revealInterval |-> revealInterval,
     dueAt |-> dueAt,
     currentIndex |-> currentIndex,
     loaded |-> loaded,
     newIndex |-> newIndex,
     clickPc |-> clickPc,
     clicks |-> clicks,
     isOpen |-> isOpen,
     query |-> query,
     selectedIndex |-> selectedIndex,
     resetPending |-> resetPending]

Commit(s) ==
    /\ hasCleanup' = s.hasCleanup
    /\ prefersReducedMotion' = s.prefersReducedMotion
    /\ animationRef' = s.animationRef
    /\ rafQueue' = s.rafQueue
    /\ nextHandle' = s.nextHandle
    /\ nextTimer' = s.nextTimer
    /\ listeners' = s.listeners
    /\ mouseRef' = s.mouseRef
    /\ timeRef' = s.timeRef
    /\ time' = s.time
    /\ steps' = s.steps
    /\ width' = s.width
    /\ height' = s.height
    /\ particlesRef' = s.particlesRef
    /\ intensityRef' = s.intensityRef
    /\ rendered' = s.rendered
    /\ live' = s.live
    /\ domChildren' = s.domChildren
    /\ intervals' = s.intervals
    /\ revealTimer' = s.revealTimer
    /\ timeouts' = s.timeouts
    /\ showFact' = s.showFact
    /\ factIndexRef' = s.factIndexRef
    /\ currentFact' = s.currentFact
    /\ error' = s.error
    /\ trail' = s.trail
    /\ angles' = s.angles
    /\ seedRef' = s.seedRef
    /\ opacities' = s.opacities
    /\ mountOpacities' = s.mountOpacities
    /\ positions' = s.positions
    /\ velocities' = s.velocities
    /\ theme' = s.theme
    /\ pageColor' = s.pageColor
    /\ frameColor' = s.frameColor
    /\ twin' = s.twin
    /\ facts' = s.facts
    /\ reveals' = s.reveals
    /\ lineCount' = s.lineCount
    /\ segments' = s.segments
    /\ samples' = s.samples
    /\ observed' = s.observed
    /\ now' = s.now
    /\ revealInterval' = s.revealInterval
    /\ dueAt' = s.dueAt
    /\ currentIndex' = s.currentIndex
    /\ loaded' = s.loaded
    /\ newIndex' = s.newIndex
    /\ clickPc' = s.clickPc
    /\ clicks' = s.clicks
    /\ isOpen' = s.isOpen
    /\ query' = s.query
    /\ selectedIndex' = s.selectedIndex
    /\ resetPending' = s.resetPending

-----------------------------------------------------------------------------
(* Host primitives *)

\* animationRef.current = requestAnimationFrame(animate)
requestAnimationFrame(s) ==
    [s EXCEPT !.rafQueue = @ \cup {s.nextHandle},
              !.animationRef = s.nextHandle,
              !.nextHandle = @ + 1]

\* cancelAnimationFrame(animationRef.current); an unknown handle is ignored
cancelAnimationFrame(s) ==
    [s EXCEPT !.rafQueue = @ \ {s.animationRef}]

addEventListeners(s, names) == [s EXCEPT !.listeners = @ \cup names]

removeEventListeners(s, names) == [s EXCEPT !.listeners = @ \ names]

\* seededRandom(offset) = frac(sin(seedRef.current + offset) * 10000): a
\* fixed function of seed + offset with values in [0, 1), tabulated in
\* eighths
RandTable == <<3, 4, 0>>

seededRandom(seed, offset) == RandTable[((seed + offset) % Len(RandTable)) + 1]

\* Math.sin of an angle counted in quarter turns
Sin4(n) == <<0, 1, 0, -1>>[(n % 4) + 1]

Abs(a) == IF a < 0 THEN -a ELSE a

\* Math.sqrt, rounded down: the r in lo..hi-1 with r * r <= n < (r + 1)^2
RECURSIVE SqrtBetween(_, _, _)
SqrtBetween(n, lo, hi) ==
    IF hi - lo <= 1 THEN lo
    ELSE LET mid == (lo + hi) \div 2
         IN  IF mid * mid <= n THEN SqrtBetween(n, mid, hi)
                               ELSE SqrtBetween(n, lo, mid)

Sqrt(n) == SqrtBetween(n, 0, 32768)

\* a / b as JavaScript computes it, kept as the pair <<a, b>>: a / 0 is
\* Infinity or NaN, not a fault
Quotient(a, b) == <<a, b>>

isFinite(q) == q[2] # 0

\* a canvas of width w and height h holds at least one pixel; drawing on a
\* canvas without pixels renders nothing
HasPixels(w, h) == w > 0 /\ h > 0

\* all sequences of length n whose i-th element is drawn from choices[i]
RECURSIVE SeqsOf(_, _)
SeqsOf(choices, n) ==
    IF n = 0 THEN {<<>>}
    ELSE {Append(q, c) : q \in SeqsOf(choices, n - 1), c \in choices[n]}

-----------------------------------------------------------------------------
(* VectorField.tsx *)

\* Math.random() * w on the pixel grid
RandomBelow(w) == 0..w

\* A particle carries two history fields besides the fields of the source:
\* age, the frames since it was last spawned (created or reset), and
\* respawns, the resets of this pool slot since the pool was built.
VF_createParticle(w, h) ==
    {[x |-> cx, y |-> cy, prevX |-> cx, prevY |-> cy, speed |-> sp,
      life |-> 0, maxLife |-> ml, age |-> 0, respawns |-> 0] :
        cx \in RandomBelow(w), cy \in RandomBelow(h),
        sp \in ParticleSpeeds, ml \in Lifes}

VF_resetParticle(p, w, h) ==
    {[p EXCEPT !.x = cx, !.y = cy, !.prevX = cx, !.prevY = cy,
               !.life = 0, !.maxLife = ml,
               !.age = 0, !.respawns = @ + 1] :
        cx \in RandomBelow(w), cy \in RandomBelow(h), ml \in Lifes}

\* variant: the handler averages the new sample with the stored one
\* (Math.ceil of the mean)
VF_handleMouseMove_smooths(s, pt) ==
    {[s EXCEPT !.mouseRef = [x |-> (s.mouseRef.x + pt[1] + 1) \div 2,
                             y |-> (s.mouseRef.y + pt[2] + 1) \div 2,
                             active |-> TRUE]]}

\* variant: the new particles are appended to the pool
VF_resize_keepsOldPool(s, ow, oh, n) ==
    {[s EXCEPT !.width = ow, !.height = oh,
               !.particlesRef = s.particlesRef \o ps] :
        ps \in SeqsOf([i \in 1..n |-> VF_createParticle(ow, oh)], n)}

\* resize(): the surface takes the host's size, the pool is rebuilt
VF_resize(s, ow, oh, n) ==
    {[s EXCEPT !.width = ow, !.height = oh, !.particlesRef = ps] :
        ps \in SeqsOf([i \in 1..n |-> VF_createParticle(ow, oh)], n)}

VF_handleMouseMove(s, pt) ==
    {[s EXCEPT !.mouseRef = [x |-> pt[1], y |-> pt[2], active |-> TRUE]]}

VF_handleMouseLeave(s) ==
    {[s EXCEPT !.mouseRef.active = FALSE]}

\* the flow direction of p: the noise angle, blended toward the pointer
\* when the pointer is active and closer than maxDist
VF_angles(p, mouse, noiseDir) ==
    LET dx == mouse.x - p.x
        dy == mouse.y - p.y
        distSq == dx * dx + dy * dy
    IN  IF mouse.active /\ distSq < MaxDist * MaxDist
        THEN Dirs
        ELSE {noiseDir}

\* getColors(): the colour tokens as the stylesheet resolves them under
\* the theme th
getColors(th) ==
    <<<<"--color-accent-primary", th>>, <<"--color-accent-secondary", th>>,
      <<"--color-accent-tertiary", th>>, <<"--color-bg-primary", th>>>>

\* variant: the right edge is not tested
VF_outOfBoundsOrOld_noRightEdge(p, w, h) ==
    p.x < 0 \/ p.y < 0 \/ p.y > h \/ p.life > p.maxLife

VF_outOfBoundsOrOld(p, w, h) ==
    p.x < 0 \/ p.x > w \/ p.y < 0 \/ p.y > h \/ p.life > p.maxLife

\* variant: a particle is reset only when it leaves the bounds
VF_updateParticle_noAgeLimit(p, w, h, mouse) ==
    LET moved(d) == [p EXCEPT !.prevX = p.x, !.prevY = p.y,
                              !.x = p.x + d[1] * p.speed * SpeedProp,
                              !.y = p.y + d[2] * p.speed * SpeedProp,
                              !.life = p.life + 1, !.age = p.age + 1]
        after == {moved(d) : d \in UNION {VF_angles(p, mouse, nd) : nd \in Dirs}}
    IN  UNION {IF q.x < 0 \/ q.x > w \/ q.y < 0 \/ q.y > h
               THEN VF_resetParticle(q, w, h)
               ELSE {q} : q \in after}

\* the body of animate's particle loop for one particle
VF_updateParticle(p, w, h, mouse) ==
    LET moved(d) == [p EXCEPT !.prevX = p.x, !.prevY = p.y,
                              !.x = p.x + d[1] * p.speed * SpeedProp,
                              !.y = p.y + d[2] * p.speed * SpeedProp,
                              !.life = p.life + 1, !.age = p.age + 1]
        after == {moved(d) : d \in UNION {VF_angles(p, mouse, nd) : nd \in Dirs}}
    IN  UNION {IF VF_outOfBoundsOrOld(q, w, h)
               THEN VF_resetParticle(q, w, h)
               ELSE {q} : q \in after}

\* the particles of this frame that were not reset reach the draw step
\* (the reset ends the iteration with `continue`), one line each
VF_strokes(ps, w, h) ==
    IF HasPixels(w, h)
    THEN Cardinality({i \in 1..Len(ps) : ps[i].age > 0})
    ELSE 0

VF_animate(s) ==
    LET n == Len(s.particlesRef)
        choices == [i \in 1..n |->
                      VF_updateParticle(s.particlesRef[i], s.width, s.height,
                                        s.mouseRef)]
    IN  {requestAnimationFrame(
            [s EXCEPT !.timeRef = @ + 1, !.particlesRef = ps,
                      !.frameColor = getColors(s.theme),
                      !.segments = VF_strokes(ps, s.width, s.height),
                      !.rendered = @ + 1]) :
         ps \in SeqsOf(choices, n)}

\* variant: the pending frame is not cancelled
VF_cleanup_keepsFrame(s) ==
    removeEventListeners(s, {"resize", "mousemove", "mouseleave"})

VF_cleanup(s) ==
    cancelAnimationFrame(
        removeEventListeners(s, {"resize", "mousemove", "mouseleave"}))

\* the mount effect
VF_mount(s, ctx, media, ow, oh, n) ==
    LET s0 == [s EXCEPT !.prefersReducedMotion = media, !.rendered = 0,
                        !.hasCleanup = FALSE]
    IN  IF ~ctx THEN {s0}
        ELSE IF media
             THEN {[s0 EXCEPT !.rendered = 1, !.segments = 0,
                              !.frameColor = getColors(s.theme)]}
        ELSE UNION {VF_animate(
                        addEventListeners([s1 EXCEPT !.hasCleanup = TRUE],
                            {"resize", "mousemove", "mouseleave"})) :
                    s1 \in VF_resize(s0, ow, oh, n)}

-----------------------------------------------------------------------------
(* DoublePendulum.tsx *)

\* variant: the fact index restarts when the effects run again
PD_revealMount_restartsIndex(s) ==
    [s EXCEPT !.intervals = @ \cup {s.nextTimer},
              !.dueAt = @ \cup {<<s.nextTimer, s.now + s.revealInterval>>},
              !.revealTimer = s.nextTimer,
              !.nextTimer = @ + 1,
              !.factIndexRef = 0]

\* the reveal effect: setInterval(..., revealInterval)
PD_revealMount(s) ==
    [s EXCEPT !.intervals = @ \cup {s.nextTimer},
              !.dueAt = @ \cup {<<s.nextTimer, s.now + s.revealInterval>>},
              !.revealTimer = s.nextTimer,
              !.nextTimer = @ + 1]

\* a timer that is cleared or has fired is no longer due
clearTimer(s, h) == [s EXCEPT !.dueAt = {e \in @ : e[1] # h}]

\* return () => clearInterval(revealTimer)
PD_revealCleanup(s) ==
    clearTimer([s EXCEPT !.intervals = @ \ {s.revealTimer}], s.revealTimer)

\* defaultFacts: a label is written as its position in the list, '' as 0
defaultFacts == [i \in 1..FactsLen |-> i]

\* Math.random() - 0.5 of the two initial angles, by its sign
AngleDraws == {<<a1, a2>> : a1 \in {-1, 1}, a2 \in {-1, 1}}

\* A trail entry stands for the position (x2, y2) the integrator reached at
\* its step-th step; its opacity is 0.99 ^ fades.
\* variant: pop() instead of shift()
PD_pushTrail_dropsNewest(tr, n) ==
    LET pushed == Append(tr, [step |-> n, fades |-> 0])
        kept   == IF Len(pushed) > MaxTrail
                  THEN SubSeq(pushed, 1, MaxTrail)
                  ELSE pushed
    IN  [i \in 1..Len(kept) |-> [kept[i] EXCEPT !.fades = @ + 1]]

\* trail.push(...); if (trail.length > maxTrail) trail.shift();
\* trail.forEach(p => p.opacity *= 0.99)
PD_pushTrail(tr, n) ==
    LET pushed == Append(tr, [step |-> n, fades |-> 0])
        kept   == IF Len(pushed) > MaxTrail THEN Tail(pushed) ELSE pushed
    IN  [i \in 1..Len(kept) |-> [kept[i] EXCEPT !.fades = @ + 1]]

PD_animate(s) ==
    IF s.prefersReducedMotion
    THEN {[s EXCEPT !.rendered = @ + 1]}
    ELSE {[requestAnimationFrame(s) EXCEPT
              !.steps = @ + 1,
              !.trail = PD_pushTrail(s.trail, s.steps + 1),
              !.rendered = @ + 1]}

\* variant: the cleanup cancels nothing
PD_cleanup_cancelsNothing(s) == s

PD_cleanup(s) == cancelAnimationFrame(s)

\* variant: the simulation effect has no dependency array, so it runs
\* again after every render
PD_render_runsSimulationEffect(s) ==
    LET c == cancelAnimationFrame(s)
    IN  [requestAnimationFrame(c) EXCEPT
            !.steps = 1, !.trail = <<[step |-> 1, fades |-> 1]>>,
            !.rendered = 1]

\* the render a state update causes: the dependencies of both effects
\* ([facts, revealInterval] and [width, height]) are props, which the
\* update leaves as they were, so React runs no effect and no cleanup
PD_render(s) == s

\* the interval callback: show the next fact, start its hide timeout
PD_reveal(s) ==
    PD_render(
        [s EXCEPT !.showFact = TRUE,
                  !.currentFact = s.facts[(s.factIndexRef % Len(s.facts)) + 1],
                  !.factIndexRef = @ + 1,
                  !.timeouts = @ \cup {s.nextTimer},
                  !.dueAt = @ \cup {<<s.nextTimer, s.now + HideDelay>>},
                  !.nextTimer = @ + 1])

\* setTimeout(() => setShowFact(false), 2500)
PD_hide(s, h) ==
    PD_render(clearTimer([s EXCEPT !.showFact = FALSE, !.timeouts = @ \ {h}], h))

\* both effects of the component
PD_mount(s, ctx, media) ==
    LET r  == PD_revealMount(s)
        s0 == [r EXCEPT !.prefersReducedMotion = media, !.rendered = 0,
                        !.steps = 0, !.trail = <<>>, !.angles = <<0, 0>>,
                        !.hasCleanup = FALSE]
    IN  IF ~ctx THEN {s0}
        ELSE UNION {PD_animate([s0 EXCEPT !.hasCleanup = TRUE, !.angles = a]) :
                    a \in AngleDraws}

-----------------------------------------------------------------------------
(* SpacetimeCursor.tsx *)

SC_resize(s, ow, oh) == {[s EXCEPT !.width = ow, !.height = oh]}

\* e.clientX, e.clientY, in pixels
SC_handleMouseMove(s, pt) ==
    {[s EXCEPT !.mouseRef = [x |-> pt[1] * CursorPx, y |-> pt[2] * CursorPx]]}

SC_handleMouseLeave(s) ==
    {[s EXCEPT !.mouseRef = [x |-> OffScreen, y |-> OffScreen]]}

Min(a, b) == IF a < b THEN a ELSE b

\* Math.max
Max(a, b) == IF a > b THEN a ELSE b

getLineColor(th) ==
    IF th # "light" THEN <<180, 180, 190>> ELSE <<60, 60, 70>>

\* drawBentLine: the sample points of the grid lines (one per unit of
\* window size) that are bent toward (mouseX, mouseY):
\* dist < maxInfluence && dist > 10
SC_bentPoints(w, h, mouse) ==
    {pt \in (0..w) \X (0..h) :
        LET dx == mouse.x - pt[1] * CursorPx
            dy == mouse.y - pt[2] * CursorPx
        IN  /\ Abs(dx) < MaxInfluence
            /\ Abs(dy) < MaxInfluence
            /\ dx * dx + dy * dy < MaxInfluence * MaxInfluence
            /\ dx * dx + dy * dy > MinInfluence * MinInfluence}

\* variant: 0 / 0 is taken as 0
SC_linesDrawn_zeroOverZero(n, w, h) ==
    IF HasPixels(w, h) THEN 2 * Cardinality(0..n) ELSE 0

\* the two line loops: for (i = 0; i <= lineCount; i++) draws the line at
\* (i / lineCount) * canvas.height, resp. canvas.width.  With lineCount = 0
\* the one iteration computes 0 / 0; moveTo and lineTo ignore a coordinate
\* that is not finite, so that line has no segment.
SC_linesDrawn(n, w, h) ==
    IF HasPixels(w, h)
    THEN 2 * Cardinality({i \in 0..n : isFinite(Quotient(i, n))})
    ELSE 0

\* variant: the ramp advances by 0.001 per frame
SC_animate_halfStep(s) ==
    {[requestAnimationFrame(s) EXCEPT
        !.timeRef = @ + 1,
        !.intensityRef = Min(IntensityOne, @ + 1),
        !.frameColor = s.pageColor,
        !.segments = SC_linesDrawn(s.lineCount, s.width, s.height),
        !.rendered = @ + 1]}

SC_animate(s) ==
    {[requestAnimationFrame(s) EXCEPT
        !.timeRef = @ + 1,
        !.intensityRef = Min(IntensityOne, @ + IntensityStep),
        !.frameColor = s.pageColor,
        !.segments = SC_linesDrawn(s.lineCount, s.width, s.height),
        !.rendered = @ + 1]}

\* variant: the window listeners stay registered
SC_cleanup_keepsListeners(s) == cancelAnimationFrame(s)

SC_cleanup(s) ==
    removeEventListeners(cancelAnimationFrame(s),
                         {"resize", "mousemove", "mouseleave"})

\* variant: the ramp and the clock are local to the effect and start over
SC_mount_resetsRamp(s, ctx, media, ow, oh, n) ==
    LET s0 == [s EXCEPT !.prefersReducedMotion = media, !.rendered = 0,
                        !.hasCleanup = FALSE, !.intensityRef = 0,
                        !.timeRef = 0]
    IN  IF ~ctx \/ media THEN {s0}
        ELSE UNION {SC_animate(
                        addEventListeners(
                            [s1 EXCEPT !.hasCleanup = TRUE,
                                       !.lineCount = n,
                                       !.pageColor = getLineColor(s.theme)],
                            {"resize", "mousemove", "mouseleave"})) :
                    s1 \in SC_resize(s0, ow, oh)}

SC_mount(s, ctx, media, ow, oh, n) ==
    LET s0 == [s EXCEPT !.prefersReducedMotion = media, !.rendered = 0,
                        !.hasCleanup = FALSE]
    IN  IF ~ctx \/ media THEN {s0}
        ELSE UNION {SC_animate(
                        addEventListeners(
                            [s1 EXCEPT !.hasCleanup = TRUE,
                                       !.lineCount = n,
                                       !.pageColor = getLineColor(s.theme)],
                            {"resize", "mousemove", "mouseleave"})) :
                    s1 \in SC_resize(s0, ow, oh)}

-----------------------------------------------------------------------------
(* RandomPhoto.tsx; n is photos.length *)

\* let newIndex; before its first assignment
NoIndex == -1

\* Math.floor(Math.random() * n), Math.random() in [0, 1)
randomIndex(n) == IF n = 0 THEN {0} ELSE 0..(n - 1)

\* the mount effect: a random photo, if there is one
RP_mount(s, n) ==
    IF n > 0 THEN {[s EXCEPT !.currentIndex = r] : r \in randomIndex(n)}
    ELSE {s}

\* onLoad={() => setLoaded(true)}
RP_onLoad(s) == [s EXCEPT !.loaded = TRUE]

\* variant: the index is drawn once
RP_loopAgain_drawsOnce(new, current, n) == FALSE

\* while (newIndex === currentIndex && photos.length > 1)
RP_loopAgain(new, current, n) == new = current /\ n > 1

\* handleClick up to its loop
RP_handleClick(s, n) ==
    IF n <= 1 THEN s
    ELSE [s EXCEPT !.newIndex = NoIndex, !.clickPc = "draw"]

\* one turn of the loop with r the index drawn, and what follows the loop
RP_draw(s, n, r) ==
    IF RP_loopAgain(r, s.currentIndex, n)
    THEN [s EXCEPT !.newIndex = r]
    ELSE [s EXCEPT !.newIndex = r, !.currentIndex = r, !.loaded = FALSE,
                   !.clickPc = "idle"]

-----------------------------------------------------------------------------
(* CommandPalette.tsx; a string is the sequence of its characters *)

commands ==
    <<[id |-> "home",
      label |-> <<"H", "o", "m", "e">>,
      description |-> <<"G", "o", " ", "t", "o", " ", "h", "o", "m", "e", "p", "a", "g", "e">>],
      [id |-> "portfolio",
      label |-> <<"P", "o", "r", "t", "f", "o", "l", "i", "o">>,
      description |-> <<"V", "i", "e", "w", " ", "p", "r", "o", "j", "e", "c", "t", "s">>],
      [id |-> "blog",
      label |-> <<"B", "l", "o", "g">>,
      description |-> <<"R", "e", "a", "d", " ", "p", "o", "s", "t", "s">>],
      [id |-> "about",
      label |-> <<"A", "b", "o", "u", "t">>,
      description |-> <<"L", "e", "a", "r", "n", " ", "a", "b", "o", "u", "t", " ", "m", "e">>],
      [id |-> "resume",
      label |-> <<"R", "e", "s", "u", "m", "e">>,
      description |-> <<"V", "i", "e", "w", " ", "r", "e", "s", "u", "m", "e">>],
      [id |-> "theme-toggle",
      label |-> <<"T", "o", "g", "g", "l", "e", " ", "T", "h", "e", "m", "e">>,
      description |-> <<"S", "w", "i", "t", "c", "h", " ", "l", "i", "g", "h", "t", "/", "d", "a", "r", "k", " ", "m", "o", "d", "e">>]>>

\* String.prototype.toLowerCase, on the letters the commands and the
\* queries are written with
lowerOf(c) ==
    CASE c = "A" -> "a"
      [] c = "B" -> "b"
      [] c = "G" -> "g"
      [] c = "H" -> "h"
      [] c = "L" -> "l"
      [] c = "P" -> "p"
      [] c = "R" -> "r"
      [] c = "S" -> "s"
      [] c = "T" -> "t"
      [] c = "V" -> "v"
      [] OTHER -> c

toLowerCase(str) == [i \in 1..Len(str) |-> lowerOf(str[i])]

\* String.prototype.includes
includes(text, search) ==
    \E i \in 0..(Len(text) - Len(search)) :
        SubSeq(text, i + 1, i + Len(search)) = search

matches(cmd, q) ==
    LET search == toLowerCase(q)
    IN  \/ includes(toLowerCase(cmd.label), search)
        \/ includes(toLowerCase(cmd.description), search)

filteredCommands(q) == SelectSeq(commands, LAMBDA cmd : matches(cmd, q))

\* useEffect(() => setSelectedIndex(0), [query])
CP_resetSelection(s) ==
    [s EXCEPT !.selectedIndex = 0, !.resetPending = FALSE]

\* the effects of the first render: the keydown listener, the reset
CP_mount(s) == {CP_resetSelection(addEventListeners(s, {"keydown"}))}

\* handleKeyDown, Ctrl/Cmd+K
CP_handleKeyDown(s) ==
    [s EXCEPT !.isOpen = ~@, !.query = <<>>, !.selectedIndex = 0,
              !.resetPending = s.query # <<>>]

\* handleInputKeyDown
CP_handleInputKeyDown(s, key) ==
    CASE key = "ArrowDown" ->
            [s EXCEPT !.selectedIndex =
                          Min(@ + 1, Len(filteredCommands(s.query)) - 1)]
      [] key = "ArrowUp" -> [s EXCEPT !.selectedIndex = Max(@ - 1, 0)]
      [] key = "Escape" -> [s EXCEPT !.isOpen = FALSE]
      [] OTHER -> s

\* onMouseEnter={() => setSelectedIndex(index)}
CP_onMouseEnter(s, index) == [s EXCEPT !.selectedIndex = index]

\* onChange={e => setQuery(e.target.value)}
CP_onChange(s, value) ==
    [s EXCEPT !.query = value, !.resetPending = value # s.query]

-----------------------------------------------------------------------------
(* SpacetimeManifold.tsx *)

\* the GPU-side objects the mount effect of run g creates
MF_created(g, curves) ==
    {<<g, "renderer", 0>>, <<g, "particleGeometry", 0>>,
     <<g, "particleMaterial", 0>>, <<g, "curveMaterial", 0>>}
    \cup {<<g, "curveGeometry", c>> : c \in 1..curves}
    \cup {<<g, "curveMaterial.clone", c>> : c \in 1..curves}

\* the objects the cleanup calls dispose() on
MF_disposed(g, curves) ==
    {<<g, "renderer", 0>>, <<g, "particleGeometry", 0>>,
     <<g, "particleMaterial", 0>>}
    \cup {<<g, "curveGeometry", c>> : c \in 1..curves}
    \cup {<<g, "curveMaterial.clone", c>> : c \in 1..curves}

\* pointer position normalised to [-1, 1] (y up)
MF_handleMouseMove(s, pt, rw, rh) ==
    {[s EXCEPT !.mouseRef = [x |-> ((2 * pt[1]) \div rw) - 1,
                             y |-> 1 - ((2 * pt[2]) \div rh),
                             active |-> TRUE]]}

MF_handleMouseLeave(s) ==
    {[s EXCEPT !.mouseRef.active = FALSE]}

\* positions[i3] = (seededRandom(i * 3) - 0.5) * 200,
\* positions[i3 + 1] = (seededRandom(i * 3 + 1) - 0.5) * 150,
\* positions[i3 + 2] = (seededRandom(i * 3 + 2) - 0.5) * 80
MF_initialPosition(seed, i) ==
    <<(seededRandom(seed, i * 3) * 200 * PosScale) \div RandDen
          - 100 * PosScale,
      (seededRandom(seed, i * 3 + 1) * 150 * PosScale) \div RandDen
          - 75 * PosScale,
      (seededRandom(seed, i * 3 + 2) * 80 * PosScale) \div RandDen
          - 40 * PosScale>>

\* velocities.push({x: (seededRandom(i * 11) - 0.5) * 0.02,
\*                  y: (seededRandom(i * 13) - 0.5) * 0.02,
\*                  z: (seededRandom(i * 17) - 0.5) * 0.01})
MF_initialVelocity(seed, i) ==
    <<(seededRandom(seed, i * 11) * 2 * PosScale) \div (100 * RandDen)
          - PosScale \div 100,
      (seededRandom(seed, i * 13) * 2 * PosScale) \div (100 * RandDen)
          - PosScale \div 100,
      (seededRandom(seed, i * 17) * PosScale) \div (100 * RandDen)
          - PosScale \div 200>>

\* Math.sin(t + i * 0.01) * 0.02 (time is compressed to quarter turns)
MF_wave(t, i) == ((2 * PosScale) \div 100) * Sin4(t + i)

\* base drift and wave motion
MF_drift(p, v, t, i) ==
    <<p[1] + v[1], p[2] + v[2] + MF_wave(t, i), p[3] + v[3]>>

\* variant: the pointer attracts whether it is active or not
MF_pull_ignoresActive(p, mouse) ==
    LET dx == mouse.x * 80 * PosScale - p[1]
        dy == mouse.y * 60 * PosScale - p[2]
        reach == MouseReach * PosScale
    IN  IF Abs(dx) < reach /\ Abs(dy) < reach
        THEN LET distSq == dx * dx + dy * dy
                 dist   == Sqrt(distSq)
             IN  IF distSq < reach * reach /\ distSq > PosScale * PosScale
                 THEN <<p[1] + (dx * 3 * PosScale) \div (10 * dist),
                        p[2] + (dy * 3 * PosScale) \div (10 * dist),
                        p[3]>>
                 ELSE p
        ELSE p

\* variant: the force is 3 / dist
MF_pull_tenfold(p, mouse) ==
    LET dx == mouse.x * 80 * PosScale - p[1]
        dy == mouse.y * 60 * PosScale - p[2]
        reach == MouseReach * PosScale
    IN  IF mouse.active /\ Abs(dx) < reach /\ Abs(dy) < reach
        THEN LET distSq == dx * dx + dy * dy
                 dist   == Sqrt(distSq)
             IN  IF distSq < reach * reach /\ distSq > PosScale * PosScale
                 THEN <<p[1] + (dx * 3 * PosScale) \div dist,
                        p[2] + (dy * 3 * PosScale) \div dist,
                        p[3]>>
                 ELSE p
        ELSE p

\* mouse gravity: a step of 0.3 toward the pointer when it is active and
\* 1 < distSq < 2500 (the squares are taken only when both differences are
\* below 50, which the distance test implies)
MF_pull(p, mouse) ==
    LET dx == mouse.x * 80 * PosScale - p[1]
        dy == mouse.y * 60 * PosScale - p[2]
        reach == MouseReach * PosScale
    IN  IF mouse.active /\ Abs(dx) < reach /\ Abs(dy) < reach
        THEN LET distSq == dx * dx + dy * dy
                 dist   == Sqrt(distSq)
             IN  IF distSq < reach * reach /\ distSq > PosScale * PosScale
                 THEN <<p[1] + (dx * 3 * PosScale) \div (10 * dist),
                        p[2] + (dy * 3 * PosScale) \div (10 * dist),
                        p[3]>>
                 ELSE p
        ELSE p

\* variant: the left edge is not tested
MF_wrap_noLeftEdge(p) ==
    LET x1 == IF p[1] > WrapX * PosScale THEN -(WrapX * PosScale) ELSE p[1]
        y1 == IF p[2] > WrapY * PosScale THEN -(WrapY * PosScale) ELSE p[2]
        y2 == IF y1 < -(WrapY * PosScale) THEN WrapY * PosScale ELSE y1
    IN  <<x1, y2, p[3]>>

\* variant: the depth is wrapped like the other two coordinates
MF_wrap_wrapsDepth(p) ==
    LET x1 == IF p[1] > WrapX * PosScale THEN -(WrapX * PosScale) ELSE p[1]
        x2 == IF x1 < -(WrapX * PosScale) THEN WrapX * PosScale ELSE x1
        y1 == IF p[2] > WrapY * PosScale THEN -(WrapY * PosScale) ELSE p[2]
        y2 == IF y1 < -(WrapY * PosScale) THEN WrapY * PosScale ELSE y1
        z1 == IF p[3] > 40 * PosScale THEN -(40 * PosScale) ELSE p[3]
        z2 == IF z1 < -(40 * PosScale) THEN 40 * PosScale ELSE z1
    IN  <<x2, y2, z2>>

\* the four wrap tests, in the order of the source
MF_wrap(p) ==
    LET x1 == IF p[1] > WrapX * PosScale THEN -(WrapX * PosScale) ELSE p[1]
        x2 == IF x1 < -(WrapX * PosScale) THEN WrapX * PosScale ELSE x1
        y1 == IF p[2] > WrapY * PosScale THEN -(WrapY * PosScale) ELSE p[2]
        y2 == IF y1 < -(WrapY * PosScale) THEN WrapY * PosScale ELSE y1
    IN  <<x2, y2, p[3]>>

\* renderer.render(scene, camera): the points of the geometry, on a
\* drawing surface that has pixels and under a finite camera.aspect
\* (container.offsetWidth / container.offsetHeight)
renderPoints(n, w, h) ==
    IF HasPixels(w, h) /\ isFinite(Quotient(w, h)) THEN n ELSE 0

MF_animate(s) ==
    IF s.prefersReducedMotion
    THEN {[s EXCEPT !.rendered = @ + 1,
                    !.segments = renderPoints(Len(s.positions), s.width,
                                              s.height)]}
    ELSE LET t == s.timeRef + 1
         IN  {[requestAnimationFrame(s) EXCEPT
                  !.timeRef = t,
                  !.segments = renderPoints(Len(s.positions), s.width,
                                            s.height),
                  !.positions =
                      [i \in 1..Len(s.positions) |->
                          MF_wrap(MF_pull(MF_drift(s.positions[i],
                                                   s.velocities[i], t, i - 1),
                                          s.mouseRef))],
                  !.rendered = @ + 1]}

\* camera.aspect / renderer.setSize
MF_handleResize(s, ow, oh) == {[s EXCEPT !.width = ow, !.height = oh]}

\* variant: removeChild without the contains() test throws on a node that
\* is not a child
removeChildUnguarded(s, g) ==
    IF g \in s.domChildren
    THEN [s EXCEPT !.domChildren = @ \ {g}]
    ELSE [s EXCEPT !.error = TRUE]

\* if (container.contains(renderer.domElement)) container.removeChild(...)
removeChildIfContained(s, g) ==
    IF g \in s.domChildren THEN [s EXCEPT !.domChildren = @ \ {g}] ELSE s

MF_cleanup(s, g, curves) ==
    LET s1 == removeEventListeners(cancelAnimationFrame(s),
                                   {"resize", "mousemove", "mouseleave"})
        s2 == [s1 EXCEPT !.live = @ \ MF_disposed(g, curves)]
    IN  removeChildIfContained(s2, g)

MF_mount(s, ctx, media, ow, oh, n, g, curves) ==
    LET s0 == [s EXCEPT !.prefersReducedMotion = media, !.rendered = 0,
                        !.hasCleanup = FALSE]
        s1 == [s0 EXCEPT !.width = ow, !.height = oh,
                         !.positions =
                             [i \in 1..n |-> MF_initialPosition(s.seedRef, i - 1)],
                         !.velocities =
                             [i \in 1..n |-> MF_initialVelocity(s.seedRef, i - 1)],
                         !.domChildren = @ \cup {g},
                         !.live = @ \cup MF_created(g, curves),
                         !.hasCleanup = TRUE]
        s2 == addEventListeners(s1, {"mousemove", "mouseleave"})
    IN  IF ~ctx THEN {[s0 EXCEPT !.error = TRUE]}
        ELSE {addEventListeners(s3, {"resize"}) : s3 \in MF_animate(s2)}

-----------------------------------------------------------------------------
(* StarField.tsx (unnamed/part_002) *)

Star_created(g) ==
    {<<g, "renderer", 0>>, <<g, "geometry", 0>>, <<g, "material", 0>>}

\* opacities[i] = 0.3 + seededRandom(i * 7) * 0.7
Star_baseOpacity(seed, i) ==
    (3 * OpacityOne) \div 10
        + (seededRandom(seed, i * 7) * 7 * OpacityOne) \div (10 * RandDen)

\* twinklePhases[i] = seededRandom(i * 13) * 2 pi, in quarter turns
Star_twinklePhase(seed, i) == (seededRandom(seed, i * 13) * 4) \div RandDen

\* twinkleSpeeds[i] = 0.5 + seededRandom(i * 17) * 2, in quarter turns per
\* frame (time is compressed: the slowest star turns a quarter per frame)
Star_twinkleSpeed(seed, i) == 1 + (seededRandom(seed, i * 17) * 2) \div RandDen

\* (0.7 + twinkle * 0.3), in tenths
Star_twinkleFactor(seed, t, i) ==
    7 + 3 * Sin4(t * Star_twinkleSpeed(seed, i) + Star_twinklePhase(seed, i))

\* the twinkle loop: baseOpacities is the array opacities itself, which is
\* also the array of the geometry's opacity attribute, so the loop reads
\* and writes the same elements
Star_twinkle(s, t) ==
    LET baseOpacities == s.opacities
    IN  [i \in 1..Len(s.opacities) |->
            (baseOpacities[i] * Star_twinkleFactor(s.seedRef, t, i - 1)) \div 10]

Star_animate(s) ==
    LET s1 == requestAnimationFrame(s)
        drawn == renderPoints(Len(s.opacities), s.width, s.height)
    IN  IF s.prefersReducedMotion
        THEN {[s1 EXCEPT !.rendered = @ + 1, !.segments = drawn]}
        ELSE {[s1 EXCEPT !.time = @ + 1,
                         !.opacities = Star_twinkle(s, s.time + 1),
                         !.segments = drawn,
                         !.rendered = @ + 1]}

Star_handleResize(s, ow, oh) == {[s EXCEPT !.width = ow, !.height = oh]}

Star_cleanup(s, g) ==
    LET s1 == removeEventListeners(cancelAnimationFrame(s), {"resize"})
        s2 == [s1 EXCEPT !.live = @ \ Star_created(g)]
    IN  removeChildIfContained(s2, g)

Star_mount(s, ctx, media, ow, oh, n, g) ==
    LET s0 == [s EXCEPT !.prefersReducedMotion = media, !.rendered = 0,
                        !.hasCleanup = FALSE]
        created == [i \in 1..n |-> Star_baseOpacity(s.seedRef, i - 1)]
        s1 == [s0 EXCEPT !.width = ow, !.height = oh, !.time = 0,
                         !.opacities = created,
                         !.mountOpacities = created,
                         !.domChildren = @ \cup {g},
                         !.live = @ \cup Star_created(g),
                         !.hasCleanup = TRUE]
    IN  IF ~ctx THEN {[s0 EXCEPT !.error = TRUE]}
        ELSE {addEventListeners(s2, {"resize"}) : s2 \in Star_animate(s1)}

-----------------------------------------------------------------------------
(* Dispatch on the component followed *)

MountEffect(k, s, ctx, media, ow, oh, n, g, curves) ==
    CASE k = "flow"     -> VF_mount(s, ctx, media, ow, oh, n)
      [] k = "pendulum" -> PD_mount(s, ctx, media)
      [] k = "cursor"   -> SC_mount(s, ctx, media, ow, oh, n)
      [] k = "manifold" -> MF_mount(s, ctx, media, ow, oh, n, g, curves)
      [] k = "star"     -> Star_mount(s, ctx, media, ow, oh, n, g)
      [] k = "photo"    -> RP_mount(s, n)
      [] k = "palette"  -> CP_mount(s)

\* React runs the cleanup the effect returned, if it returned one
EffectCleanup(k, s, g, curves) ==
    CASE k = "flow"     -> IF s.hasCleanup THEN VF_cleanup(s) ELSE s
      [] k = "pendulum" -> PD_revealCleanup(
                               IF s.hasCleanup THEN PD_cleanup(s) ELSE s)
      [] k = "cursor"   -> IF s.hasCleanup THEN SC_cleanup(s) ELSE s
      [] k = "manifold" -> IF s.hasCleanup THEN MF_cleanup(s, g, curves) ELSE s
      [] k = "star"     -> IF s.hasCleanup THEN Star_cleanup(s, g) ELSE s
      [] k = "photo"    -> s
      [] k = "palette"  -> removeEventListeners(s, {"keydown"})

Animate(k, s) ==
    CASE k = "flow"     -> VF_animate(s)
      [] k = "pendulum" -> PD_animate(s)
      [] k = "cursor"   -> SC_animate(s)
      [] k = "manifold" -> MF_animate(s)
      [] k = "star"     -> Star_animate(s)

OnResize(k, s, ow, oh, n) ==
    CASE k = "flow"     -> VF_resize(s, ow, oh, n)
      [] k = "cursor"   -> SC_resize(s, ow, oh)
      [] k = "manifold" -> MF_handleResize(s, ow, oh)
      [] k = "star"     -> Star_handleResize(s, ow, oh)
      [] OTHER          -> {s}

OnMouseMove(k, s, pt, rw, rh) ==
    CASE k = "flow"     -> VF_handleMouseMove(s, pt)
      [] k = "cursor"   -> SC_handleMouseMove(s, pt)
      [] k = "manifold" -> MF_handleMouseMove(s, pt, rw, rh)
      [] OTHER          -> {s}

OnMouseLeave(k, s) ==
    CASE k = "flow"     -> VF_handleMouseLeave(s)
      [] k = "cursor"   -> SC_handleMouseLeave(s)
      [] k = "manifold" -> MF_handleMouseLeave(s)
      [] OTHER          -> {s}

-----------------------------------------------------------------------------
(* Initial state: the component has rendered, no effect has run yet *)

\* cfg gives the sets the component followed, its props and the host's
\* answers are drawn from
InitProps(cfg) ==
    /\ kind \in cfg.kinds
    /\ mediaReduced \in cfg.medias
    /\ hostCtx \in cfg.ctxs
    /\ offsetWidth \in cfg.widths
    /\ offsetHeight \in cfg.heights
    /\ entityCount \in cfg.counts
    /\ curveCount = 1
    /\ phase = "idle"
    /\ gen = 0
    /\ disposals = 0
    /\ hasCleanup = FALSE
    /\ prefersReducedMotion = FALSE
    /\ animationRef = 0
    /\ rafQueue = {}
    /\ nextHandle = 1
    /\ nextTimer = 1
    /\ listeners = {}
    /\ mouseRef = IF kind = "cursor"
                  THEN [x |-> OffScreen, y |-> OffScreen]
                  ELSE NoMouse
    /\ timeRef = 0
    /\ time = 0
    /\ steps = 0
    /\ width = 0
    /\ height = 0
    /\ particlesRef = <<>>
    /\ intensityRef = 0
    /\ rendered = 0
    /\ live = {}
    /\ domChildren = {}
    /\ intervals = {}
    /\ revealTimer = 0
    /\ timeouts = {}
    /\ showFact = FALSE
    /\ factIndexRef = 0
    /\ currentFact = 0
    /\ error = FALSE
    /\ trail = <<>>
    /\ angles = <<0, 0>>
    /\ seedRef \in (IF kind \in {"manifold", "star"} THEN Seeds ELSE {0})
    /\ opacities = <<>>
    /\ mountOpacities = <<>>
    /\ positions = <<>>
    /\ velocities = <<>>
    /\ theme = "dark"
    /\ pageColor = <<>>
    /\ frameColor = <<>>
    /\ twin = <<>>
    /\ facts \in cfg.facts
    /\ reveals = 0
    /\ lineCount = 0
    /\ segments = 0
    /\ samples = <<>>
    /\ observed = <<>>
    /\ now = 0
    /\ revealInterval \in cfg.revealIntervals
    /\ dueAt = {}
    /\ currentIndex = 0
    /\ loaded = FALSE
    /\ newIndex = NoIndex
    /\ clickPc = "idle"
    /\ clicks = 0
    /\ isOpen = FALSE
    /\ query = <<>>
    /\ selectedIndex = 0
    /\ resetPending = FALSE

\* the default props on a host with a non-empty surface
InitWith(kinds, counts, medias, ctxs) ==
    InitProps([kinds |-> kinds, counts |-> counts, medias |-> medias,
               ctxs |-> ctxs, widths |-> Widths, heights |-> Heights,
               facts |-> {defaultFacts},
               revealIntervals |-> {DefaultRevealInterval}])

Init == InitWith(Kinds, {1}, BOOLEAN, BOOLEAN)

-----------------------------------------------------------------------------
(* Actions: what the host does to the component *)

\* React runs the mount effect (first mount, or re-run after its cleanup)
Mount(cap) ==
    /\ phase \in {"idle", "disposed"}
    /\ gen < cap
    /\ ~error
    /\ \E s2 \in MountEffect(kind, St, hostCtx, mediaReduced, offsetWidth,
                             offsetHeight, entityCount, gen + 1, curveCount) :
          Commit(s2)
    /\ phase' = "mounted"
    /\ gen' = gen + 1
    /\ disposals' = 0
    /\ UNCHANGED <<kind, mediaReduced, hostCtx, offsetWidth, offsetHeight,
                   entityCount, curveCount>>

\* React runs the effect cleanup (deps changed, or unmount)
Dispose ==
    /\ phase = "mounted"
    /\ Commit(EffectCleanup(kind, St, gen, curveCount))
    /\ phase' = "disposed"
    /\ disposals' = 1
    /\ UNCHANGED <<kind, mediaReduced, hostCtx, offsetWidth, offsetHeight,
                   entityCount, curveCount, gen>>

\* the same cleanup closure is called a second time
DisposeAgain ==
    /\ phase = "disposed"
    /\ disposals = 1
    /\ Commit(EffectCleanup(kind, St, gen, curveCount))
    /\ disposals' = 2
    /\ UNCHANGED <<kind, mediaReduced, hostCtx, offsetWidth, offsetHeight,
                   entityCount, curveCount, phase, gen>>

\* the browser runs a pending animation-frame callback
Frame(cap) ==
    /\ rendered < cap
    /\ \E h \in rafQueue :
          \E s2 \in Animate(kind, [St EXCEPT !.rafQueue = @ \ {h}]) :
              Commit(s2)
    /\ UNCHANGED hostVars

\* the window is resized to one of the given sizes; the resize event
\* reaches the registered listener
ResizeTo(ws, hs) ==
    \E ow \in ws, oh \in hs :
        /\ offsetWidth' = ow
        /\ offsetHeight' = oh
        /\ IF "resize" \in listeners
           THEN \E s2 \in OnResize(kind, St, ow, oh, entityCount) : Commit(s2)
           ELSE UNCHANGED sceneVars
        /\ UNCHANGED <<kind, mediaReduced, hostCtx, entityCount, curveCount,
                       phase, gen, disposals>>

WindowResize == ResizeTo(Widths, Heights)

\* the pointer moves over the element the scene listens on (the window for
\* the cursor grid); an element without area is never under the pointer
MouseMove ==
    /\ \E pt \in MousePoints :
          IF /\ "mousemove" \in listeners
             /\ (kind = "cursor" \/ HasPixels(offsetWidth, offsetHeight))
          THEN \E s2 \in OnMouseMove(kind, St, pt, offsetWidth, offsetHeight) :
                  Commit(s2)
          ELSE UNCHANGED sceneVars
    /\ UNCHANGED hostVars

MouseLeave ==
    /\ IF "mouseleave" \in listeners
       THEN \E s2 \in OnMouseLeave(kind, St) : Commit(s2)
       ELSE UNCHANGED sceneVars
    /\ UNCHANGED hostVars

\* the user's motion preference changes (it is read by the mount effect only,
\* so a change while mounted shows as a change before the next mount)
MediaChange ==
    /\ phase = "disposed"
    /\ mediaReduced' = ~mediaReduced
    /\ UNCHANGED <<kind, hostCtx, offsetWidth, offsetHeight, entityCount,
                   curveCount, phase, gen, disposals>>
    /\ UNCHANGED sceneVars

\* the page holds two instances of the component, constructed alike (same
\* props, same seedRef.current); React runs the mount effect of both
MountPair ==
    /\ phase = "idle"
    /\ gen = 0
    /\ \E s2 \in MountEffect(kind, St, hostCtx, mediaReduced, offsetWidth,
                             offsetHeight, entityCount, 1, curveCount),
          t2 \in MountEffect(kind, St, hostCtx, mediaReduced, offsetWidth,
                             offsetHeight, entityCount, 2, curveCount) :
          Commit([s2 EXCEPT !.twin = <<t2>>])
    /\ phase' = "mounted"
    /\ gen' = 1
    /\ disposals' = 0
    /\ UNCHANGED <<kind, mediaReduced, hostCtx, offsetWidth, offsetHeight,
                   entityCount, curveCount>>

\* the browser runs the pending animation-frame callback of both instances
FramePair(cap) ==
    /\ rendered < cap
    /\ twin # <<>>
    /\ \E h \in rafQueue, h2 \in twin[1].rafQueue :
          \E s2 \in Animate(kind, [St EXCEPT !.rafQueue = @ \ {h}]),
             t2 \in Animate(kind, [twin[1] EXCEPT !.rafQueue = @ \ {h2}]) :
              Commit([s2 EXCEPT !.twin = <<t2>>])
    /\ UNCHANGED hostVars

\* a pointer event between two frames: the handler runs to completion
\* before anything else does
PointerEvent ==
    /\ "mousemove" \in listeners
    /\ Len(samples) < MaxSamples
    /\ \E pt \in MousePoints :
          \E s2 \in OnMouseMove(kind, St, pt, offsetWidth, offsetHeight) :
              Commit([s2 EXCEPT !.samples = Append(@, pt)])
    /\ UNCHANGED hostVars

\* the browser runs a pending animation-frame callback; the samples
\* delivered before it are no longer pending
PointerFrame(cap) ==
    /\ rendered < cap
    /\ \E h \in rafQueue :
          \E s2 \in Animate(kind, [St EXCEPT !.rafQueue = @ \ {h}]) :
              Commit([s2 EXCEPT !.observed = samples, !.samples = <<>>])
    /\ UNCHANGED hostVars

\* the visitor switches the theme
ThemeChange ==
    /\ \E th \in Themes \ {theme} : Commit([St EXCEPT !.theme = th])
    /\ UNCHANGED hostVars

\* the reveal interval elapses
RevealTick(cap) ==
    /\ intervals # {}
    /\ reveals < cap
    /\ Commit([PD_reveal(St) EXCEPT !.reveals = @ + 1])
    /\ UNCHANGED hostVars

\* a hide timeout elapses
HideTimeout ==
    /\ \E h \in timeouts : Commit(PD_hide(St, h))
    /\ UNCHANGED hostVars

\* lineCount props followed
LineCounts == {1, 2}

\* keys handleInputKeyDown is followed for
InputKeys == {"ArrowDown", "ArrowUp", "Escape", "a"}

\* texts typed into the palette
Queries ==
    {<<>>, <<"o">>, <<"R", "e">>, <<"b", "l">>, <<"m", "e">>, <<"T">>,
     <<"z">>, <<"z", "z">>}

\* a prop in the effect's dependency list changes on a live component:
\* React runs the cleanup of the previous run, then the effect again
Rerun(cap) ==
    /\ phase = "mounted"
    /\ gen < cap
    /\ ~error
    /\ \E n \in LineCounts \ {entityCount} :
          /\ entityCount' = n
          /\ \E s2 \in MountEffect(kind, EffectCleanup(kind, St, gen, curveCount),
                                   hostCtx, mediaReduced, offsetWidth,
                                   offsetHeight, n, gen + 1, curveCount) :
                Commit(s2)
    /\ gen' = gen + 1
    /\ UNCHANGED <<kind, mediaReduced, hostCtx, offsetWidth, offsetHeight,
                   curveCount, phase, disposals>>

\* the palette takes events once the effects of its last render have run
PaletteReady == phase = "mounted" /\ ~resetPending

\* Ctrl/Cmd+K anywhere in the document
ToggleKey ==
    /\ PaletteReady
    /\ "keydown" \in listeners
    /\ Commit(CP_handleKeyDown(St))
    /\ UNCHANGED hostVars

\* a key pressed in the palette's input
InputKey ==
    /\ PaletteReady /\ isOpen
    /\ \E key \in InputKeys : Commit(CP_handleInputKeyDown(St, key))
    /\ UNCHANGED hostVars

\* the pointer enters one of the commands listed
Hover ==
    /\ PaletteReady /\ isOpen
    /\ \E index \in 0..(Len(filteredCommands(query)) - 1) :
          Commit(CP_onMouseEnter(St, index))
    /\ UNCHANGED hostVars

\* the user edits the text of the input
QueryEdit ==
    /\ PaletteReady /\ isOpen
    /\ \E value \in Queries : Commit(CP_onChange(St, value))
    /\ UNCHANGED hostVars

\* React runs the [query] effect after the render with the new query
QueryEffect ==
    /\ phase = "mounted" /\ resetPending
    /\ Commit(CP_resetSelection(St))
    /\ UNCHANGED hostVars

\* the photo's image has loaded
ImageLoad ==
    /\ phase = "mounted"
    /\ entityCount > 0
    /\ clickPc = "idle"
    /\ Commit(RP_onLoad(St))
    /\ UNCHANGED hostVars

\* the user clicks the photo (the figure is there when there is a photo)
Click(cap) ==
    /\ phase = "mounted"
    /\ entityCount > 0
    /\ clickPc = "idle"
    /\ clicks < cap
    /\ Commit([RP_handleClick(St, entityCount) EXCEPT !.clicks = @ + 1])
    /\ UNCHANGED hostVars

\* handleClick draws the index it already shows
DrawSame ==
    /\ clickPc = "draw"
    /\ \E r \in randomIndex(entityCount) :
          /\ r = currentIndex
          /\ Commit(RP_draw(St, entityCount, r))
    /\ UNCHANGED hostVars

\* handleClick draws another index
DrawOther ==
    /\ clickPc = "draw"
    /\ \E r \in randomIndex(entityCount) :
          /\ r # currentIndex
          /\ Commit(RP_draw(St, entityCount, r))
    /\ UNCHANGED hostVars

\* time passes; a timer fires when it is due, so time does not pass it by
Tick(cap) ==
    /\ now < cap
    /\ \A e \in dueAt : e[2] > now
    /\ Commit([St EXCEPT !.now = @ + 1])
    /\ UNCHANGED hostVars

\* the reveal interval is due: its callback runs and the host arms the
\* interval again
RevealDue ==
    /\ revealTimer \in intervals
    /\ <<revealTimer, now>> \in dueAt
    /\ Commit([PD_reveal(St) EXCEPT
                  !.reveals = @ + 1,
                  !.dueAt = (@ \ {<<revealTimer, now>>})
                              \cup {<<revealTimer, now + revealInterval>>}])
    /\ UNCHANGED hostVars

\* a hide timeout is due (timers due at the same time run in either order)
HideDue ==
    /\ \E h \in timeouts :
          /\ <<h, now>> \in dueAt
          /\ Commit(PD_hide(St, h))
    /\ UNCHANGED hostVars

Next ==
    \/ Mount(MaxMounts)
    \/ Dispose
    \/ DisposeAgain
    \/ Frame(MaxFrames)
    \/ WindowResize
    \/ MouseMove
    \/ MouseLeave
    \/ MediaChange
    \/ RevealTick(MaxReveals)
    \/ HideTimeout

Spec == Init /\ [][Next]_vars

-----------------------------------------------------------------------------
(* The flow field alone, with its particle pool in detail *)

InitFlow == InitWith({"flow"}, ParticleCounts, {FALSE}, {TRUE})

NextFlow ==
    \/ Mount(1)
    \/ Dispose
    \/ Frame(FlowFrames)
    \/ WindowResize
    \/ MouseMove
    \/ MouseLeave

SpecFlow == InitFlow /\ [][NextFlow]_vars

-----------------------------------------------------------------------------
(* The cursor grid alone, over its whole warm-up *)

InitCursor == InitWith({"cursor"}, {1}, {FALSE}, {TRUE})

NextCursor ==
    \/ Mount(1)
    \/ Dispose
    \/ Frame(CursorFrames)
    \/ WindowResize
    \/ MouseMove
    \/ MouseLeave

SpecCursor == InitCursor /\ [][NextCursor]_vars

-----------------------------------------------------------------------------
(* The pendulum alone, until its trail has been full for a while *)

InitPendulum == InitWith({"pendulum"}, {1}, {FALSE}, {TRUE})

NextPendulum ==
    \/ Mount(1)
    \/ Dispose
    \/ Frame(TrailFrames)

SpecPendulum == InitPendulum /\ [][NextPendulum]_vars

-----------------------------------------------------------------------------
(* The pendulum with facts lists short enough to wrap around *)

\* facts props of length 1..MaxFacts
FactsLists == {[i \in 1..n |-> i] : n \in 1..MaxFacts}

InitReveal ==
    InitProps([kinds |-> {"pendulum"}, counts |-> {1}, medias |-> {FALSE},
               ctxs |-> {TRUE}, widths |-> {1}, heights |-> {1},
               facts |-> FactsLists,
               revealIntervals |-> {DefaultRevealInterval}])

NextReveal ==
    \/ Mount(MaxMounts)
    \/ Dispose
    \/ Frame(MaxFrames)
    \/ RevealTick(RevealEvents)
    \/ HideTimeout

SpecReveal == InitReveal /\ [][NextReveal]_vars

-----------------------------------------------------------------------------
(* The scenes under degenerate configurations: no entities, or a surface
   without width or height *)

SmallSizes == {0, 1}

InitDegenerate ==
    InitProps([kinds |-> {"flow", "cursor", "manifold", "star"},
               counts |-> {0, 1}, medias |-> BOOLEAN, ctxs |-> {TRUE},
               widths |-> SmallSizes, heights |-> SmallSizes,
               facts |-> {defaultFacts},
               revealIntervals |-> {DefaultRevealInterval}])

NextDegenerate ==
    \/ Mount(MaxMounts)
    \/ Dispose
    \/ Frame(MaxFrames)
    \/ ResizeTo(SmallSizes, SmallSizes)
    \/ MouseMove
    \/ MouseLeave

SpecDegenerate == InitDegenerate /\ [][NextDegenerate]_vars

-----------------------------------------------------------------------------
(* The three scenes that follow the pointer, with the pointer events
   between two frames counted *)

InitPointer == InitWith({"flow", "cursor", "manifold"}, {1}, {FALSE}, {TRUE})

NextPointer ==
    \/ Mount(1)
    \/ Dispose
    \/ PointerEvent
    \/ PointerFrame(MaxFrames)

SpecPointer == InitPointer /\ [][NextPointer]_vars

-----------------------------------------------------------------------------
(* The pendulum's timers at the times they are due *)

\* revealInterval props followed: 1250, 2500 and 5000 ms
RevealIntervals == {1, 2, DefaultRevealInterval}

InitTimed ==
    InitProps([kinds |-> {"pendulum"}, counts |-> {1}, medias |-> {FALSE},
               ctxs |-> {TRUE}, widths |-> {1}, heights |-> {1},
               facts |-> {defaultFacts},
               revealIntervals |-> RevealIntervals])

NextTimed ==
    \/ Mount(MaxMounts)
    \/ Dispose
    \/ Tick(MaxTime)
    \/ RevealDue
    \/ HideDue

SpecTimed == InitTimed /\ [][NextTimed]_vars

-----------------------------------------------------------------------------
(* The cursor grid when its lineCount prop changes *)

InitRerun == InitWith({"cursor"}, LineCounts, BOOLEAN, {TRUE})

NextRerun ==
    \/ Mount(MaxMounts)
    \/ Dispose
    \/ Rerun(MaxMounts)
    \/ Frame(MaxFrames)
    \/ MouseMove

SpecRerun == InitRerun /\ [][NextRerun]_vars

-----------------------------------------------------------------------------
(* The command palette *)

InitPalette == InitWith({"palette"}, {0}, {FALSE}, {TRUE})

NextPalette ==
    \/ Mount(1)
    \/ ToggleKey
    \/ InputKey
    \/ Hover
    \/ QueryEdit
    \/ QueryEffect

SpecPalette == InitPalette /\ [][NextPalette]_vars

-----------------------------------------------------------------------------
(* The random photo *)

\* photos.length props followed
PhotoCounts == 0..3

InitPhoto == InitWith({"photo"}, PhotoCounts, {FALSE}, {TRUE})

NextPhoto ==
    \/ Mount(1)
    \/ ImageLoad
    \/ Click(MaxClicks)
    \/ DrawSame
    \/ DrawOther

\* Math.random() does not return the same index for ever
SpecPhoto == InitPhoto /\ [][NextPhoto]_vars /\ WF_vars(DrawOther)

-----------------------------------------------------------------------------
(* The manifold alone, with its particles in detail *)

InitManifold == InitWith({"manifold"}, {1, 2}, {FALSE}, {TRUE})

NextManifold ==
    \/ Mount(1)
    \/ Dispose
    \/ Frame(ManifoldFrames)
    \/ WindowResize
    \/ MouseMove
    \/ MouseLeave

SpecManifold == InitManifold /\ [][NextManifold]_vars

-----------------------------------------------------------------------------
(* The two scenes that take their colours from the theme, with theme changes *)

InitTheme == InitWith({"flow", "cursor"}, {1}, BOOLEAN, {TRUE})

NextTheme ==
    \/ Mount(MaxMounts)
    \/ Dispose
    \/ Frame(MaxFrames)
    \/ ThemeChange

SpecTheme == InitTheme /\ [][NextTheme]_vars

-----------------------------------------------------------------------------
(* Two instances of a scene side by side, without pointer input or resize *)

InitPair == InitWith(Kinds, {1}, {FALSE}, {TRUE})

NextPair ==
    \/ MountPair
    \/ FramePair(MaxFrames)

SpecPair == InitPair /\ [][NextPair]_vars

-----------------------------------------------------------------------------
(* Properties of the scene lifecycle (Spec) *)

Disposed == phase = "disposed"

\* the simulation state a frame updates
simState == <<timeRef, time, steps, particlesRef, intensityRef>>

\* C1: once the cleanup has returned no frame callback is pending, and from
\* then until the next mount no frame is drawn and the simulation state
\* (time counters, integrator steps, particle pool, intensity) never changes.
C1_NoFrameAfterDispose ==
    /\ [](Disposed => rafQueue = {})
    /\ [][(Disposed /\ Disposed') =>
            (rendered' = rendered /\ simState' = simState)]_vars

\* frames, a pointer sample and a resize came before the cleanup
C1_Witness ==
    /\ Disposed
    /\ hasCleanup
    /\ rendered >= 2
    /\ mouseRef # NoMouse
    /\ nextHandle > rendered

\* C2: a scene mounted under reduced motion never has an animation-frame
\* request pending.
C2_NoFrameRequestUnderReducedMotion ==
    (phase = "mounted" /\ prefersReducedMotion) => rafQueue = {}

\* C3: a scene mounted under reduced motion (with a rendering context) has
\* drawn exactly one frame, neither none nor more than one.
C3_OneStaticFrame ==
    (phase = "mounted" /\ prefersReducedMotion /\ hostCtx) => rendered = 1

\* C4: once the cleanup has returned, nothing the scene scheduled is still
\* pending: no animation-frame request, no interval, no timeout.
C4_NothingPendingAfterDispose ==
    Disposed => (rafQueue = {} /\ intervals = {} /\ timeouts = {})

\* C5: after the cleanup of a WebGL scene every GPU object its mount created
\* has been disposed and the container holds no drawing surface.
C5_AllReleased ==
    (Disposed /\ kind \in {"manifold", "star"}) =>
        (live = {} /\ domChildren = {})

\* C6: the second call of a cleanup changes nothing the scene owns or has
\* registered with the host (pending callbacks, listeners, container
\* children, live GPU objects), and raises no error (the error flag is part
\* of sceneVars).
C6_SecondDisposeIsNoOp ==
    [][(disposals = 1 /\ disposals' = 2) => sceneVars' = sceneVars]_vars

\* a WebGL scene that drew frames has had its cleanup called twice
C6_Witness ==
    /\ disposals = 2
    /\ hasCleanup
    /\ kind = "manifold"
    /\ rendered >= 2

\* what a resize or pointer event may touch
eventState == <<mouseRef, width, height, particlesRef, rafQueue, error>>

\* C7: the cleanup leaves no listener registered, so that events delivered
\* afterwards change neither the pointer sample, the bounds, the surface
\* size nor the particle pool, schedule no frame and raise no error.
C7_LateEventsIgnored ==
    /\ [](Disposed => listeners = {})
    /\ [][(Disposed /\ Disposed') => (eventState' = eventState)]_vars

\* the window was resized after the cleanup: the host's size is no longer
\* the size the scene last saw
C7_Witness ==
    /\ Disposed
    /\ hasCleanup
    /\ kind \in {"flow", "cursor", "manifold", "star"}
    /\ offsetWidth # width

AnyFrame ==
    \/ rendered' = rendered + 1 /\ gen' = gen
    \/ rendered' = 1 /\ gen' = gen + 1

\* C17: when the host provides no rendering context, the mount effect of
\* every scene returns without an exception and leaves no frame scheduled,
\* and the cleanup afterwards raises nothing either.
C17_InertWithoutContext ==
    (~hostCtx /\ phase \in {"mounted", "disposed"}) =>
        (~error /\ rafQueue = {} /\ rendered = 0)

\* C18: a scene never has more than one animation-frame request pending,
\* whatever frames, resizes, pointer events and re-runs of the mount effect
\* have happened, and every frame of a running loop leaves exactly one
\* request pending.
C18_OneFrameLoop ==
    /\ [](Cardinality(rafQueue) <= 1)
    /\ [][(AnyFrame /\ ~prefersReducedMotion') =>
            Cardinality(rafQueue') = 1]_vars

\* the mount effect has re-run after a cleanup, frames were drawn and a
\* resize was handled, and one request is pending
C18_Witness ==
    /\ phase = "mounted"
    /\ gen >= 2
    /\ rendered >= 2
    /\ width # 0 /\ offsetWidth = 2
    /\ Cardinality(rafQueue) = 1

C20_SameBoundsResizeKeepsPool ==
    [][(phase = "mounted" /\ phase' = "mounted" /\ gen' = gen
            /\ rendered' = rendered /\ width' = width /\ height' = height) =>
        (/\ particlesRef' = particlesRef
         /\ positions' = positions
         /\ velocities' = velocities
         /\ opacities' = opacities)]_vars

-----------------------------------------------------------------------------
(* Properties of the flow field (SpecFlow) *)

InBounds(p) ==
    /\ 0 <= p.life /\ p.life <= p.maxLife
    /\ 0 <= p.x /\ p.x <= width
    /\ 0 <= p.y /\ p.y <= height

\* C8: after every frame and after every resize, every particle of the
\* running flow field has 0 <= life <= maxLife and lies within the current
\* bounds.
C8_ParticlesInBounds ==
    phase = "mounted" =>
        \A i \in 1..Len(particlesRef) : InBounds(particlesRef[i])

\* a particle that was respawned, has since reached its maximal age and
\* sits on the right edge of the narrow surface
C8_Witness ==
    /\ phase = "mounted"
    /\ width = 1
    /\ gen = 1 /\ offsetWidth = 1
    /\ \E i \in 1..Len(particlesRef) :
          /\ particlesRef[i].life = particlesRef[i].maxLife
          /\ particlesRef[i].x = width
          /\ particlesRef[i].respawns >= 1

\* C9: a particle is respawned at the latest maxLife + 1 frames after its
\* previous spawn (at a frame boundary it is never older than maxLife
\* frames), a spawn leaves it with life 0 inside the bounds, and every frame
\* updates every particle of the pool, whose size never changes.
C9_RespawnWithinMaxLife ==
    /\ [](phase = "mounted" =>
            /\ Len(particlesRef) = entityCount
            /\ \A i \in 1..Len(particlesRef) :
                  /\ particlesRef[i].age <= particlesRef[i].maxLife
                  /\ particlesRef[i].age = 0 =>
                        (particlesRef[i].life = 0 /\ InBounds(particlesRef[i])))
    /\ [][(phase = "mounted" /\ timeRef' = timeRef + 1) =>
            /\ Len(particlesRef') = Len(particlesRef)
            /\ \A i \in 1..Len(particlesRef) :
                  \/ particlesRef'[i].age = particlesRef[i].age + 1
                  \/ /\ particlesRef'[i].age = 0
                     /\ particlesRef'[i].respawns = particlesRef[i].respawns + 1
                     /\ particlesRef'[i].maxLife \in Lifes]_vars

\* a particle that was respawned and has been updated again since
C9_Witness ==
    /\ phase = "mounted"
    /\ \E i \in 1..Len(particlesRef) :
          /\ particlesRef[i].respawns >= 1
          /\ particlesRef[i].age >= 1

-----------------------------------------------------------------------------
(* Properties of the cursor grid (SpecCursor) *)

\* 1 / increment
RampFrames == IntensityOne \div IntensityStep

\* C10: intensity is 0 before the first frame, stays within [0, 1], never
\* decreases, and is 1 from the 500th frame on, whatever pointer events and
\* resizes come in between.
C10_IntensityRatchet ==
    /\ [](/\ 0 <= intensityRef /\ intensityRef <= IntensityOne
          /\ timeRef = 0 => intensityRef = 0
          /\ timeRef >= RampFrames => intensityRef = IntensityOne)
    /\ [][intensityRef' >= intensityRef]_vars

\* past the warm-up, with the pointer on the page and the window resized
C10_Witness ==
    /\ timeRef > RampFrames
    /\ intensityRef = IntensityOne
    /\ mouseRef.x # OffScreen
    /\ gen = 1 /\ width = 2

-----------------------------------------------------------------------------
(* Properties of the cursor grid across runs of its effect (SpecRerun) *)

\* the effect runs again on a component that has run it before
EffectReruns == gen >= 1 /\ gen' = gen + 1

\* C27: when the cursor grid's effect is re-run on a live component
\* (lineCount changes: cleanup, then the effect), intensity and the time
\* counter are not reset: the first frame of the new run continues the ramp
\* from its previous value, neither ever decreases, and intensity is 0 only
\* before the component's first frame.
C27_RampSurvivesRerun ==
    /\ [][(EffectReruns /\ ~mediaReduced) =>
            /\ intensityRef' = Min(IntensityOne, intensityRef + IntensityStep)
            /\ timeRef' = timeRef + 1]_vars
    /\ [][intensityRef' >= intensityRef /\ timeRef' >= timeRef]_vars
    /\ [](timeRef > 0 => intensityRef > 0)

\* the effect has run again for another lineCount and its first frame
\* continued the ramp of the previous run
C27_Witness ==
    /\ gen = 2 /\ phase = "mounted" /\ rendered = 1
    /\ lineCount = 2
    /\ intensityRef > 2 * IntensityStep

-----------------------------------------------------------------------------
(* Properties of the command palette (SpecPalette) *)

\* C30: after any sequence of ArrowUp, ArrowDown, hover, query edits and
\* Ctrl/Cmd+K toggles, selectedIndex is never negative and, once the
\* query-reset effect has run and the filtered list is not empty,
\* 0 <= selectedIndex < filteredCommands.length.
C30_SelectionWithinList ==
    /\ selectedIndex >= 0
    /\ (~resetPending /\ Len(filteredCommands(query)) > 0) =>
            selectedIndex < Len(filteredCommands(query))

-----------------------------------------------------------------------------
(* Properties of the random photo (SpecPhoto) *)

\* handleClick is called, returns
ClickBegins == clicks' = clicks + 1
ClickEnds == clickPc = "draw" /\ clickPc' = "idle"

\* C29: with at least two photos a click ends with a current index other
\* than the one before the click and within [0, photos.length); with zero or
\* one photo a click changes nothing; the loop that draws the new index
\* ends, given that the random draw eventually yields another index.
C29_ClickShowsAnotherPhoto ==
    /\ [][ClickEnds => /\ currentIndex' # currentIndex
                       /\ currentIndex' \in 0..(entityCount - 1)]_vars
    /\ [][(ClickBegins /\ entityCount >= 2) => clickPc' = "draw"]_vars
    /\ [][(ClickBegins /\ entityCount <= 1) =>
            <<currentIndex, loaded, clickPc>>' = <<currentIndex, loaded, clickPc>>]_vars
    /\ [](\A n \in 0..1 : RP_handleClick(St, n) = St)
    /\ (clickPc = "draw") ~> (clickPc = "idle")

\* a second click on one of three photos has ended
C29_Witness ==
    /\ entityCount = 3
    /\ clicks = 2 /\ clickPc = "idle"
    /\ newIndex = currentIndex
    /\ ~loaded

-----------------------------------------------------------------------------
(* Properties of the pendulum (SpecPendulum) *)

\* C11: after every frame the trail holds at most maxTrail entries and is
\* the most recent min(n, maxTrail) captured points, oldest first; a capture
\* with the trail full drops exactly the oldest entry and keeps the order of
\* the others.
C11_TrailIsRecentPoints ==
    /\ [](/\ Len(trail) <= MaxTrail
          /\ Len(trail) = Min(steps, MaxTrail)
          /\ \A i \in 1..Len(trail) :
                trail[i].step = steps - Len(trail) + i)
    /\ [][(steps' = steps + 1 /\ Len(trail) = MaxTrail) =>
            /\ Len(trail') = MaxTrail
            /\ \A i \in 1..(MaxTrail - 1) :
                  trail'[i].step = trail[i + 1].step
            /\ trail'[MaxTrail].step = steps']_vars

\* the trail is full and has dropped at least one point
C11_Witness ==
    /\ phase = "mounted"
    /\ Len(trail) = MaxTrail
    /\ steps > MaxTrail
    /\ trail[1].step > 1

-----------------------------------------------------------------------------
(* Properties under degenerate configurations (SpecDegenerate) *)

\* the scene has no entity, or its bounds have no width or no height
Degenerate ==
    entityCount = 0 \/ offsetWidth = 0 \/ offsetHeight = 0

-----------------------------------------------------------------------------
(* Properties of the reveal timer (SpecReveal) *)

\* C21: the k-th reveal event since the component was created (k = 0, 1,
\* ...) shows facts[k mod n]: the label changes only at a reveal, and the
\* reveal that follows k earlier ones shows the entry at position k mod n,
\* whatever effect re-runs happened in between.
C21_RevealCyclesThroughFacts ==
    /\ [](reveals = 0 => currentFact = 0)
    /\ [][reveals' = reveals => currentFact' = currentFact]_vars
    /\ [][reveals' = reveals + 1 =>
            /\ showFact'
            /\ currentFact' = facts[(reveals % Len(facts)) + 1]]_vars

\* after a re-run of the effects the list has wrapped around to its first
\* label
C21_Witness ==
    /\ Len(facts) >= 2
    /\ gen = 2
    /\ reveals = Len(facts) + 1
    /\ currentFact = facts[1]
    /\ factIndexRef > Len(facts)

\* a reveal event, or the hide timeout of one, has just run
RevealOrHide ==
    \/ reveals' = reveals + 1
    \/ (timeouts' # timeouts /\ timeouts' \subseteq timeouts)

\* C22: a reveal event and the hide that follows it change only the display
\* state: the initial angles, the integrator's steps and the trail stay as
\* they were, and the frame loop is neither cancelled nor restarted nor
\* duplicated (same pending request, same handle, no frame drawn, no effect
\* run).
C22_RevealLeavesSimulationAlone ==
    [][RevealOrHide =>
         /\ UNCHANGED <<angles, steps, trail>>
         /\ UNCHANGED <<rafQueue, animationRef, nextHandle, rendered>>
         /\ UNCHANGED <<phase, gen, hasCleanup, intervals, revealTimer>>]_vars

\* a fact was revealed and hidden again while the loop was running with a
\* trail
C22_Witness ==
    /\ phase = "mounted"
    /\ reveals >= 1
    /\ ~showFact
    /\ timeouts = {}
    /\ Len(trail) >= 2
    /\ Cardinality(rafQueue) = 1

-----------------------------------------------------------------------------
(* Properties of the reveal at the times of its timers (SpecTimed) *)

\* C26: for any revealInterval a reveal stays visible for the full 2500 ms
\* after it is emitted (while the hide timeout it started is not yet due,
\* showFact is true) and showFact is false once no hide timeout is pending.
C26_RevealVisibleForFullWindow ==
    phase = "mounted" =>
        /\ \A e \in dueAt : (e[1] \in timeouts /\ e[2] > now) => showFact
        /\ timeouts = {} => ~showFact

-----------------------------------------------------------------------------
(* Properties of the manifold (SpecManifold) *)

\* a frame of the running loop (not the one the mount effect draws)
LoopFrame == rendered' = rendered + 1 /\ gen' = gen

\* where particle i stands in this frame before the wrap tests
MF_beforeWrap(i) ==
    MF_pull(MF_drift(positions[i], velocities[i], timeRef + 1, i - 1), mouseRef)

\* the same for the frame the mount effect draws, from the initial position
MF_beforeWrapAtMount(i) ==
    MF_pull(MF_drift(MF_initialPosition(seedRef, i - 1),
                     MF_initialVelocity(seedRef, i - 1), timeRef + 1, i - 1),
            mouseRef)

\* c if it lies within [-edge, edge], else the opposite edge
OppositeEdge(c, edge) ==
    IF c > edge THEN -edge ELSE IF c < -edge THEN edge ELSE c

OnOppositeEdge(q) ==
    <<OppositeEdge(q[1], WrapX * PosScale), OppositeEdge(q[2], WrapY * PosScale),
      q[3]>>

\* C13: at every frame boundary every particle has x in [-100, 100] and y
\* in [-75, 75]; a particle that leaves through an edge during a frame is
\* on the opposite edge after that frame, one that does not leave is where
\* drift, wave and pointer put it, and the drift velocities are the ones
\* assigned at mount.
C13_WrapAround ==
    /\ [](phase = "mounted" =>
            \A i \in 1..Len(positions) :
                /\ Abs(positions[i][1]) <= WrapX * PosScale
                /\ Abs(positions[i][2]) <= WrapY * PosScale
                /\ velocities[i] = MF_initialVelocity(seedRef, i - 1))
    /\ [][LoopFrame =>
            \A i \in 1..Len(positions) :
                positions'[i] = OnOppositeEdge(MF_beforeWrap(i))]_vars
    /\ [][(gen' = gen + 1 /\ rendered' = 1) =>
            \A i \in 1..Len(positions') :
                positions'[i] = OnOppositeEdge(MF_beforeWrapAtMount(i))]_vars

\* a particle drifting left stands on the right edge: it left through the
\* left edge in the last frame
C13_Witness ==
    /\ phase = "mounted"
    /\ \E i \in 1..Len(positions) :
          /\ positions[i][1] = WrapX * PosScale
          /\ velocities[i][1] < 0

\* 0.3 scene units, the length of the pointer's step
PullStep == (3 * PosScale) \div 10

\* the pointer is at least 50 scene units away from q (distSq >= 2500)
PointerFar(q) ==
    LET dx == mouseRef.x * 80 * PosScale - q[1]
        dy == mouseRef.y * 60 * PosScale - q[2]
        reach == MouseReach * PosScale
    IN  \/ Abs(dx) >= reach
        \/ Abs(dy) >= reach
        \/ dx * dx + dy * dy >= reach * reach

\* the pointer is at most 1 scene unit away from q (distSq <= 1)
PointerNear(q) ==
    LET dx == mouseRef.x * 80 * PosScale - q[1]
        dy == mouseRef.y * 60 * PosScale - q[2]
    IN  /\ Abs(dx) <= PosScale
        /\ Abs(dy) <= PosScale
        /\ dx * dx + dy * dy <= PosScale * PosScale

\* the pointer's displacement of a particle that drift and wave brought to
\* q is bounded by 0.3, leaves z alone, and is zero when the pointer is
\* inactive, 50 or more away, or 1 or less away.  On the position grid each
\* coordinate of the displacement is within two grid steps of its exact
\* value (the quotient and the square root are rounded down, and the
\* distance is above PosScale), so the bound is on the displacement
\* shortened by two steps per coordinate
BoundedPull(q) ==
    LET r  == MF_pull(q, mouseRef)
        dx == r[1] - q[1]
        dy == r[2] - q[2]
        ex == Max(Abs(dx) - 2, 0)
        ey == Max(Abs(dy) - 2, 0)
    IN  /\ ex * ex + ey * ey <= PullStep * PullStep
        /\ r[3] = q[3]
        /\ (~mouseRef.active \/ PointerFar(q) \/ PointerNear(q)) => r = q

\* positions at and around the pointer, which particles come to in runs
\* longer than the ones followed: on the pointer, 1 away from it, just
\* inside and just outside both radii
PullProbes ==
    LET offs == {0, 1, -1, PosScale - 1, PosScale, PosScale + 1, -PosScale,
                 MouseReach * PosScale - 1, MouseReach * PosScale,
                 -(MouseReach * PosScale) + 1}
    IN  {<<mouseRef.x * 80 * PosScale + ox, mouseRef.y * 60 * PosScale + oy, 0>> :
            ox \in offs, oy \in offs}

\* C23: on every frame and for every particle the displacement the pointer
\* adds has magnitude at most 0.3 scene units however close the particle is
\* to the pointer, and is zero when the squared distance is >= 2500 or
\* <= 1 (so nothing is divided by a distance of 0).
C23_PointerForceBounded ==
    /\ [](kind = "manifold" => \A q \in PullProbes : BoundedPull(q))
    /\ [][LoopFrame =>
            \A i \in 1..Len(positions) :
                /\ BoundedPull(MF_drift(positions[i], velocities[i],
                                        timeRef + 1, i - 1))
                /\ positions'[i] = OnOppositeEdge(MF_beforeWrap(i))]_vars
    /\ [][(gen' = gen + 1 /\ rendered' = 1) =>
            \A i \in 1..Len(positions') :
                /\ BoundedPull(MF_drift(MF_initialPosition(seedRef, i - 1),
                                        MF_initialVelocity(seedRef, i - 1),
                                        timeRef + 1, i - 1))
                /\ positions'[i] = OnOppositeEdge(MF_beforeWrapAtMount(i))]_vars

\* the pointer is active and has moved a particle off the path drift and
\* wave alone give it (x changes by the drift velocity only, and the
\* particle has not been wrapped)
C23_Witness ==
    /\ phase = "mounted"
    /\ mouseRef.active
    /\ rendered >= 2
    /\ \E i \in 1..Len(positions) :
          /\ Abs(positions[i][1]) < WrapX * PosScale
          /\ positions[i][1] #
                MF_initialPosition(seedRef, i - 1)[1]
                    + rendered * velocities[i][1]
          /\ ~PointerFar(positions[i])

\* C28: a frame changes a particle's z coordinate only by adding the z
\* component of its constant drift velocity, whatever the pointer does; z
\* is never wrapped or clamped, so after n frames it is the initial value
\* plus n times the z velocity.
C28_DepthDriftsFreely ==
    /\ [](\A i \in 1..Len(positions) :
            /\ velocities[i][3] = MF_initialVelocity(seedRef, i - 1)[3]
            /\ positions[i][3] =
                  MF_initialPosition(seedRef, i - 1)[3]
                      + rendered * velocities[i][3])
    /\ [][LoopFrame =>
            \A i \in 1..Len(positions) :
                positions'[i][3] = positions[i][3] + velocities[i][3]]_vars

\* a particle has drifted out of the depth range it was created in while
\* the pointer was over the scene
C28_Witness ==
    /\ phase = "mounted"
    /\ rendered = ManifoldFrames
    /\ mouseRef.active
    /\ \E i \in 1..Len(positions) :
          /\ velocities[i][3] # 0
          /\ Abs(positions[i][3]) > 40 * PosScale

-----------------------------------------------------------------------------
(* Properties of the pointer's influence (Spec) *)

\* the pointer has never entered, or it has left
PointerInactive ==
    IF kind = "cursor"
    THEN mouseRef = [x |-> OffScreen, y |-> OffScreen]
    ELSE ~mouseRef.active

-----------------------------------------------------------------------------
(* Properties of the pointer samples (SpecPointer) *)

\* the slot before any pointer event
InitialSlot ==
    IF kind = "cursor" THEN [x |-> OffScreen, y |-> OffScreen] ELSE NoMouse

\* the slot as the handler leaves it when pt is the only sample ever
\* delivered
SlotOf(pt) ==
    LET after == OnMouseMove(kind, [St EXCEPT !.mouseRef = InitialSlot], pt,
                             offsetWidth, offsetHeight)
    IN  (CHOOSE s2 \in after : TRUE).mouseRef

\* C25: a pointer handler only overwrites the one slot mouseRef.current,
\* with the latest sample and nothing of the earlier ones; a frame reads
\* the slot and does not write it, and computes all its entities from that
\* one value, so of several events between two frames only the last is
\* observed.
C25_LatestSampleOnly ==
    /\ [](samples # <<>> => mouseRef = SlotOf(samples[Len(samples)]))
    /\ [][Len(samples') = Len(samples) + 1 =>
            /\ [St' EXCEPT !.mouseRef = mouseRef, !.samples = samples] = St
            /\ UNCHANGED hostVars]_vars
    /\ [][LoopFrame =>
            /\ mouseRef' = mouseRef
            /\ \E h \in rafQueue :
                  \E s2 \in Animate(kind, [St EXCEPT !.rafQueue = @ \ {h}]) :
                      /\ particlesRef' = s2.particlesRef
                      /\ positions' = s2.positions
                      /\ segments' = s2.segments]_vars

\* two different samples arrived between two frames of the manifold, and
\* the frame that followed pulled a particle toward the second one
C25_Witness ==
    /\ kind = "manifold"
    /\ phase = "mounted"
    /\ Len(observed) = 2
    /\ observed[1] # observed[2]
    /\ samples = <<>>
    /\ rendered >= 2
    /\ mouseRef = SlotOf(observed[2])

-----------------------------------------------------------------------------
(* Properties of the colours (SpecTheme) *)

\* the colours the scene followed resolves under the theme th
ResolvedColors(th) ==
    IF kind = "cursor" THEN getLineColor(th) ELSE getColors(th)

\* C15: every frame of the running loop is drawn with the colours resolved
\* from the theme in force when it is drawn, so the first frame after a
\* theme change already shows the new theme, without a remount.
C15_FrameUsesCurrentTheme ==
    [][LoopFrame => frameColor' = ResolvedColors(theme)]_vars

-----------------------------------------------------------------------------
(* Properties of two instances (SpecPair) *)

\* the fields of a flow-field particle (without the history fields)
ParticleFields(p) ==
    <<p.x, p.y, p.prevX, p.prevY, p.speed, p.life, p.maxLife>>

\* the entity state of an instance: particles, positions, velocities,
\* opacities, initial angles and trail
EntityState(s) ==
    <<[i \in 1..Len(s.particlesRef) |-> ParticleFields(s.particlesRef[i])],
      s.positions, s.velocities, s.opacities, s.angles, s.trail>>

\* C16: two instances of a scene constructed with the same seed and the
\* same configuration have the same entity state after mount and after the
\* same number of frames without pointer input or resize.
C16_SameSeedSameState ==
    twin # <<>> => EntityState(St) = EntityState(twin[1])

====
